---- MODULE Spec2Model ----
(***************************************************************************)
(* A model of the two stateful constructs of advanced_module.c: the        *)
(* RangeIterator object (create_range_iterator, RangeIterator_next,        *)
(* iterate_object) and the Point capsule (create_point_capsule,            *)
(* get_point_data, point_destructor).                                      *)
(*                                                                         *)
(* C long is modelled as the interval LongMin..LongMax with wrap-around    *)
(* arithmetic; the width is scaled down so that the boundary cases are     *)
(* within reach of exhaustive exploration.                                 *)
(***************************************************************************)
EXTENDS Integers, Sequences, FiniteSets, TLC

\* ------------------------------------------------------------------ bounds
\* Scaled-down LONG_MAX: a C long ranges over LongMin..LongMax.
LongMax == 3
\* Scaled-down INT_MAX: a C int ranges over IntMin..IntMax.
IntMax == 1
\* Most loop iterations iterate_object is followed for (a step of 0 never ends).
MaxItems == 8
\* Most allocation failures injected in one behaviour.
MaxFailures == 1
\* Characters of a name are 1..MaxChar; 0 is the NUL byte.
MaxChar == 2
\* Longest name passed to create_point is NameSize + MaxExtra characters.
MaxExtra == 2
\* StopIteration results of one iterator are counted up to MaxEnds.
MaxEnds == 3
\* Most references Python code holds to the capsule at once.
MaxRefs == 2
\* The values returned by direct pulls are recorded up to the MaxGot-th.
MaxGot == 3
\* Most names Python code binds to one object handed to memory_module.
MaxNames == 3
\* safe_divide is called with the doubles -MaxDouble.0 .. MaxDouble.0.
MaxDouble == 2

\* sizeof(((Point*)0)->name)
NameSize == 50
\* The number of squares exception_safe collects.
Squares == 10
\* The doubles nested_call_demo passes to safe_divide: 10.0 and 0.0.
Dividend == 10
Divisor == 0

LongMin == -LongMax - 1
Long == LongMin..LongMax
LongCard == LongMax - LongMin + 1
IntMin == -IntMax - 1
CInt == IntMin..IntMax

\* Python integers passed as arguments: every C value and one beyond each end.
PyLongArgs == (LongMin - 1)..(LongMax + 1)
PyIntArgs == (IntMin - 1)..(IntMax + 1)

\* Two's-complement wrap of a mathematical integer into a long.
WrapLong(v) == ((v - LongMin) % LongCard) + LongMin

\* ------------------------------------------------------------- host values
\* Every host value is a record with a kind; NULL is the null pointer.
NULL == [kind |-> "NULL"]
None == [kind |-> "none"]
IntObj(v) == [kind |-> "int", v |-> v]
ListObj(items) == [kind |-> "list", items |-> items]
NoError == "none"
\* A call of module function fn, on argument arg where the model tells them apart.
Op(fn, arg) == [fn |-> fn, arg |-> arg]

VARIABLES
  iter,      \* the RangeIterator object: NULL, or [current, stop, step]
  iterArgs,  \* the arguments the iterator was created with
  ends,      \* how many pulls on the iterator returned StopIteration
  use,       \* "fresh" until the first pull, "draining" during and after an
             \* iterate call that began on a fresh iterator, else "used"
  caller,    \* who made the last direct pull (next(it))
  pc,        \* position of iterate_object: "idle" or "loop"
  result,    \* iterate_object's local `result`
  count,     \* iterate_object's local `count`
  capsule,   \* the Point capsule object
  foreign,   \* a capsule some other extension created, named "NotPoint"
  heap,      \* the Point block PyMem_Malloc returned
  cargs,     \* the arguments of the one call of create_point
  released,  \* number of calls of point_destructor
  op,        \* the function the last call entered
  ret,       \* what the last finished call returned
  err,       \* the host's current-error slot when the last step ended
  crashed,   \* the process has been killed (trap or invalid memory access)
  failures,  \* allocation failures injected so far
  args,      \* the arguments of the last call into basics_module,
             \* exceptions_module or memory_module
  objs,      \* ob_refcnt of the objects handed to memory_module
  made,      \* the objects the last call into memory_module created
  got        \* where two callers share the iterator (SpecShared): the
             \* values their pulls returned, with the caller of each, in
             \* the order of the pulls; the first MaxGot are kept

ivars == <<iter, iterArgs, ends, use, caller, pc, result, count>>
cvars == <<capsule, foreign, heap, cargs, released>>
xvars == <<args, objs, made, got>>
vars == <<iter, iterArgs, ends, use, caller, pc, result, count,
          capsule, foreign, heap, cargs, released,
          op, ret, err, crashed, failures, args, objs, made, got>>

\* Whether an allocation finds memory: a failure may be injected while fewer
\* than MaxFailures have been.
Allocs == IF failures < MaxFailures THEN BOOLEAN ELSE {TRUE}
Failed(oom) == IF oom THEN 1 ELSE 0
\* One more StopIteration counted.
Ended(n, end) == IF end /\ n < MaxEnds THEN n + 1 ELSE n

\* ---------------------------------------------------------- host functions
\* PyInt_FromLong: a new int object, or NULL with MemoryError set.
PyInt_FromLong(value, alloc) ==
  IF alloc THEN [val |-> IntObj(value), err |-> NoError]
           ELSE [val |-> NULL, err |-> "MemoryError"]

\* An error raised while another is pending replaces it (PyErr_Restore).
SetErr(slot, e) == IF e = NoError THEN slot ELSE e

\* ------------------------------------------------------- RangeIterator_next
\* The set of outcomes of one call of tp_iternext on `self`.  `alloc` says
\* whether PyInt_FromLong finds memory.  `self->current += self->step` on
\* signed long overflows with undefined behaviour: the build either wraps
\* (-fwrapv, or a plain add instruction) or traps (-ftrapv).
\* RangeIterator_next with the bound tested as `current > stop`.
RangeIterator_next_Inclusive(self, alloc) ==
  IF self.current > self.stop
  THEN {[self |-> self, val |-> NULL, err |-> "StopIteration", trap |-> FALSE,
         oom |-> FALSE]}
  ELSE {[self |-> [self EXCEPT !.current = WrapLong(self.current + self.step)],
         val |-> PyInt_FromLong(self.current, alloc).val,
         err |-> PyInt_FromLong(self.current, alloc).err,
         trap |-> FALSE, oom |-> ~alloc]}

\* RangeIterator_next with `current += step` done before the bound is tested,
\* so that an exhausted iterator still advances.
RangeIterator_next_AdvanceAtEnd(self, alloc) ==
  LET moved == [self EXCEPT !.current = WrapLong(self.current + self.step)]
  IN  IF self.current >= self.stop
      THEN {[self |-> moved, val |-> NULL, err |-> "StopIteration",
             trap |-> FALSE, oom |-> FALSE]}
      ELSE {[self |-> moved,
             val |-> PyInt_FromLong(self.current, alloc).val,
             err |-> PyInt_FromLong(self.current, alloc).err,
             trap |-> FALSE, oom |-> ~alloc]}

\* RangeIterator_next returning current after the advance instead of the
\* value saved before it.
RangeIterator_next_ReturnsAdvanced(self, alloc) ==
  IF self.current >= self.stop
  THEN {[self |-> self, val |-> NULL, err |-> "StopIteration", trap |-> FALSE,
         oom |-> FALSE]}
  ELSE LET moved == WrapLong(self.current + self.step)
       IN  {[self |-> [self EXCEPT !.current = moved],
             val |-> PyInt_FromLong(moved, alloc).val,
             err |-> PyInt_FromLong(moved, alloc).err,
             trap |-> FALSE, oom |-> ~alloc]}

\* RangeIterator_next without `self->current += self->step`.
RangeIterator_next_NoAdvance(self, alloc) ==
  IF self.current >= self.stop
  THEN {[self |-> self, val |-> NULL, err |-> "StopIteration", trap |-> FALSE,
         oom |-> FALSE]}
  ELSE {[self |-> self,
         val |-> PyInt_FromLong(self.current, alloc).val,
         err |-> PyInt_FromLong(self.current, alloc).err,
         trap |-> FALSE, oom |-> ~alloc]}

RangeIterator_next(self, alloc) ==
  IF self.current >= self.stop
  THEN {[self |-> self, val |-> NULL, err |-> "StopIteration", trap |-> FALSE,
         oom |-> FALSE]}
  ELSE LET value == self.current
           sum   == self.current + self.step
           obj   == PyInt_FromLong(value, alloc)
       IN  IF sum \in Long
           THEN {[self |-> [self EXCEPT !.current = sum],
                  val |-> obj.val, err |-> obj.err, trap |-> FALSE,
                  oom |-> ~alloc]}
           ELSE {[self |-> [self EXCEPT !.current = WrapLong(sum)],
                  val |-> obj.val, err |-> obj.err, trap |-> FALSE,
                  oom |-> ~alloc],
                 [self |-> self, val |-> NULL, err |-> NoError, trap |-> TRUE,
                  oom |-> FALSE]}

\* tp_iternext called directly: the StopIteration of the end stays pending.
PyIter_Next_NoClear(self, slot, alloc) ==
  { [self |-> o.self, val |-> o.val, trap |-> o.trap, oom |-> o.oom,
     end |-> (o.val = NULL /\ o.err = "StopIteration"),
     err |-> SetErr(slot, o.err)]
    : o \in RangeIterator_next(self, alloc) }

\* PyIter_Next: tp_iternext, and a pending StopIteration is cleared.
PyIter_Next(self, slot, alloc) ==
  { LET e == SetErr(slot, o.err)
    IN  [self |-> o.self, val |-> o.val, trap |-> o.trap, oom |-> o.oom,
         end |-> (o.val = NULL /\ o.err = "StopIteration"),
         err |-> IF o.val = NULL /\ e = "StopIteration" THEN NoError ELSE e]
    : o \in RangeIterator_next(self, alloc) }

\* PyList_Append: the list with the item added, or -1 with MemoryError set.
PyList_Append(list, item, alloc) ==
  IF alloc THEN [list |-> ListObj(Append(list.items, item.v)), err |-> NoError]
           ELSE [list |-> list, err |-> "MemoryError"]

\* ---------------------------------------------------- create_range_iterator
\* range_iterator(start, stop[, step]); nargs is 2 when step is omitted.
\* Format "ll|l": an argument outside the range of long is an OverflowError.
create_range_iterator(start, stop, stepArg, nargs, alloc) ==
  LET step == IF nargs = 2 THEN 1 ELSE stepArg
  IN  IF ~({start, stop, step} \subseteq Long)
      THEN [iter |-> NULL, err |-> "OverflowError"]
      ELSE IF ~alloc
      THEN [iter |-> NULL, err |-> "MemoryError"]
      ELSE [iter |-> [kind |-> "RangeIterator",
                      current |-> start, stop |-> stop, step |-> step],
            err |-> NoError]

CreateRangeIterator ==
  /\ ~crashed /\ pc = "idle" /\ iter = NULL
  /\ \E start \in PyLongArgs, stop \in PyLongArgs, stepArg \in PyLongArgs,
        nargs \in {2, 3}, alloc \in Allocs :
       LET r == create_range_iterator(start, stop, stepArg, nargs, alloc)
       IN  /\ nargs = 2 => stepArg = 1
           /\ iter' = r.iter
           /\ iterArgs' = IF r.iter = NULL THEN iterArgs
                          ELSE [start |-> start, stop |-> stop,
                                step |-> r.iter.step, nargs |-> nargs]
           /\ ret' = r.iter
           /\ err' = r.err
           /\ failures' = failures + Failed(~alloc)
  /\ op' = Op("range_iterator", "none")
  /\ use' = "fresh"
  /\ UNCHANGED <<ends, caller, pc, result, count, crashed>>
  /\ UNCHANGED cvars
  /\ UNCHANGED xvars

\* ------------------------------------------------- next(it) from Python code
\* One direct pull by caller c: a whole call of RangeIterator_next.  The
\* value returned is recorded in `got` where `shared` says so.
PullBy(c, shared) ==
  /\ ~crashed /\ pc = "idle" /\ iter # NULL
  /\ \E alloc \in Allocs : \E o \in RangeIterator_next(iter, alloc) :
       /\ iter' = o.self
       /\ crashed' = o.trap
       /\ ret' = o.val
       /\ err' = o.err
       /\ ends' = Ended(ends, ~o.trap /\ o.val = NULL /\ o.err = "StopIteration")
       /\ failures' = failures + Failed(o.oom)
       /\ got' = IF shared /\ o.val # NULL /\ Len(got) < MaxGot
                 THEN Append(got, [who |-> c, v |-> o.val.v])
                 ELSE got
  /\ caller' = c
  /\ use' = "used"
  /\ op' = Op("next", c)
  /\ UNCHANGED <<iterArgs, pc, result, count>>
  /\ UNCHANGED cvars
  /\ UNCHANGED <<args, objs, made>>

Pull(c) == PullBy(c, FALSE)
SharedPull(c) == PullBy(c, TRUE)

\* ------------------------------------------------------------ iterate_object
\* tp_iter putting the iterator back at 0 before returning it.
RangeIterator_iter_Resets(self) == [self EXCEPT !.current = 0]

\* tp_iter: the iterator is its own iterator.
RangeIterator_iter(self) == self

\* Lines 162-171: parse, PyObject_GetIter (tp_iter returns self), PyList_New.
IterateBegin ==
  /\ ~crashed /\ pc = "idle" /\ iter # NULL
  /\ \E alloc \in Allocs :
       /\ result' = IF alloc THEN ListObj(<<>>) ELSE NULL
       /\ err' = IF alloc THEN NoError ELSE "MemoryError"
       /\ failures' = failures + Failed(~alloc)
  /\ pc' = "loop"
  /\ count' = 0
  /\ ret' = None
  /\ op' = Op("iterate", "none")
  /\ use' = IF use = "fresh" THEN "draining" ELSE "used"
  /\ iter' = RangeIterator_iter(iter)
  /\ UNCHANGED <<iterArgs, ends, caller, crashed>>
  /\ UNCHANGED cvars
  /\ UNCHANGED xvars

\* Lines 173-186: one evaluation of the loop condition, followed either by
\* the loop body or by the code after the loop up to the return (where the
\* locals go out of scope).
IterateStep ==
  /\ ~crashed /\ pc = "loop"
  /\ \E allocInt \in Allocs, allocApp \in Allocs :
     \E o \in PyIter_Next(iter, err, allocInt) :
       IF o.trap
       THEN /\ crashed' = TRUE
            /\ UNCHANGED <<iter, ends, pc, result, count, ret, err, failures>>
       ELSE IF o.val # NULL
       THEN \* loop body
            /\ count < MaxItems
            /\ iter' = o.self
            /\ UNCHANGED ends
            /\ IF result = NULL
               THEN \* PyList_Append(NULL, item) reads through a null pointer
                    /\ crashed' = TRUE
                    /\ err' = o.err
                    /\ allocApp
                    /\ failures' = failures + Failed(o.oom)
                    /\ UNCHANGED <<pc, result, count, ret>>
               ELSE LET a == PyList_Append(result, o.val, allocApp)
                    IN  /\ failures + Failed(o.oom) + Failed(~allocApp) <= MaxFailures
                        /\ result' = a.list
                        /\ err' = SetErr(o.err, a.err)
                        /\ count' = count + 1
                        /\ failures' = failures + Failed(o.oom) + Failed(~allocApp)
                        /\ UNCHANGED <<pc, ret, crashed>>
       ELSE \* loop exit: Py_DECREF(iterator), PyErr_Occurred, return
            /\ allocApp
            /\ iter' = o.self
            /\ ends' = Ended(ends, o.end)
            /\ pc' = "idle"
            /\ failures' = failures + Failed(o.oom)
            /\ result' = NULL
            /\ count' = 0
            /\ IF o.err # NoError
               THEN IF result = NULL
                    THEN \* Py_DECREF(NULL)
                         /\ crashed' = TRUE
                         /\ err' = o.err
                         /\ UNCHANGED ret
                    ELSE /\ ret' = NULL
                         /\ err' = o.err
                         /\ UNCHANGED crashed
               ELSE /\ ret' = result
                    \* NULL returned with no error set: the interpreter
                    \* raises SystemError
                    /\ err' = IF result = NULL THEN "SystemError" ELSE NoError
                    /\ UNCHANGED crashed
  /\ UNCHANGED <<iterArgs, use, caller, op>>
  /\ UNCHANGED cvars
  /\ UNCHANGED xvars


\* ------------------------------------------------------------ Point capsule
\* Memory from offset 0 of Point.name up to MemSize: the name buffer is
\* offsets 0..NameSize-1, the bytes after it belong to something else.
MemSize == NameSize + MaxExtra + 1
Offsets == 0..(MemSize - 1)

\* Names Python code passes: sequences of bytes of chosen lengths (short,
\* and around the buffer size), each in MaxChar rotations, and one with an
\* embedded NUL byte.
NameLens == {0, 1, 2, NameSize - 2, NameSize - 1, NameSize, NameSize + 1,
             NameSize + MaxExtra}
Names == { [i \in 1..n |-> ((i + k) % MaxChar) + 1] :
             n \in NameLens, k \in 0..(MaxChar - 1) }
         \cup { <<1, 0, 1>> }

\* The first n characters of a name.
Prefix(name, n) == [i \in 1..(IF Len(name) < n THEN Len(name) ELSE n) |-> name[i]]

\* PyMem_Malloc(sizeof(Point)): a block of unspecified content (every byte
\* g), or NULL.
PyMem_Malloc(alloc, g) ==
  IF alloc
  THEN [state |-> "allocated", x |-> g, y |-> g,
        mem |-> [i \in Offsets |-> IF i < NameSize THEN g ELSE MaxChar],
        written |-> {}, frees |-> 0]
  ELSE [state |-> "none", x |-> 0, y |-> 0,
        mem |-> [i \in Offsets |-> MaxChar], written |-> {}, frees |-> 0]

\* PyMem_Free(point).
PyMem_Free(h) == [h EXCEPT !.state = "freed", !.frees = @ + 1]

\* strncpy(dst, src, n): exactly n bytes are written, the characters of src
\* and then NUL bytes.
strncpy(h, src, n) ==
  [h EXCEPT !.mem = [i \in Offsets |->
                       IF i >= n THEN h.mem[i]
                       ELSE IF i < Len(src) THEN src[i + 1] ELSE 0],
            !.written = @ \cup 0..(n - 1)]

\* The fields of the new Point with the name copied by strcpy, which writes
\* every character of the name and a NUL byte.
FillPoint_Strcpy(h, x, y, name) ==
  strncpy([h EXCEPT !.x = x, !.y = y], name, Len(name) + 1)

\* Lines 222-225: the fields of the new Point.
FillPoint(h, x, y, name) ==
  LET h1 == [h EXCEPT !.x = x, !.y = y]
      h2 == strncpy(h1, name, NameSize - 1)
  IN  [h2 EXCEPT !.mem[NameSize - 1] = 0, !.written = @ \cup {NameSize - 1}]

\* strlen: the offset of the first NUL byte (MemSize if the modelled memory
\* holds none).
RECURSIVE strlen(_, _)
strlen(mem, i) ==
  IF i >= MemSize THEN i
  ELSE IF mem[i] = 0 THEN i
  ELSE strlen(mem, i + 1)

\* The C string at offset 0, as Py_BuildValue's "s" copies it.
CString(mem) == [i \in 1..strlen(mem, 0) |-> mem[i - 1]]

\* PyCapsule_New(pointer, name, destructor).
PyCapsule_New(pointer, name, destructor, alloc) ==
  IF alloc
  THEN [kind |-> "capsule", pointer |-> pointer, name |-> name,
        destructor |-> destructor, refcnt |-> 1]
  ELSE NULL

\* PyCapsule_GetPointer(o, name): the pointer, or NULL with ValueError set
\* when o is no valid capsule or its name differs.
PyCapsule_GetPointer(o, name) ==
  IF o.kind # "capsule"
  THEN [pointer |-> "NULL", err |-> "ValueError"]
  ELSE IF o.name # name
  THEN [pointer |-> "NULL", err |-> "ValueError"]
  ELSE [pointer |-> o.pointer, err |-> NoError]

\* ------------------------------------------------------ create_point_capsule
\* What create_point's argument parsing accepts.
Accepted(a) ==
  /\ a.x \in CInt /\ a.y \in CInt
  /\ \A i \in DOMAIN a.name : a.name[i] # 0

\* create_point_capsule creating the capsule without a destructor.
create_point_capsule_NoDestructor(x, y, name, allocMem, allocCap, g, h) ==
  IF ~({x, y} \subseteq CInt)
  THEN [ret |-> NULL, err |-> "OverflowError", heap |-> h]
  ELSE IF \E i \in DOMAIN name : name[i] = 0
  THEN [ret |-> NULL, err |-> "TypeError", heap |-> h]
  ELSE LET point == PyMem_Malloc(allocMem, g)
       IN  IF point.state = "none"
           THEN [ret |-> NULL, err |-> "MemoryError", heap |-> h]
           ELSE LET filled == FillPoint(point, x, y, name)
                    cap == PyCapsule_New("point", "Point", "NULL", allocCap)
                IN  IF cap = NULL
                    THEN [ret |-> NULL, err |-> "MemoryError",
                          heap |-> PyMem_Free(filled)]
                    ELSE [ret |-> cap, err |-> NoError, heap |-> filled]

\* create_point_capsule returning at once when PyCapsule_New fails, the
\* payload still allocated.
create_point_capsule_LeaksPayload(x, y, name, allocMem, allocCap, g, h) ==
  IF ~({x, y} \subseteq CInt)
  THEN [ret |-> NULL, err |-> "OverflowError", heap |-> h]
  ELSE IF \E i \in DOMAIN name : name[i] = 0
  THEN [ret |-> NULL, err |-> "TypeError", heap |-> h]
  ELSE LET point == PyMem_Malloc(allocMem, g)
       IN  IF point.state = "none"
           THEN [ret |-> NULL, err |-> "MemoryError", heap |-> h]
           ELSE LET filled == FillPoint(point, x, y, name)
                    cap == PyCapsule_New("point", "Point", "point_destructor",
                                         allocCap)
                IN  IF cap = NULL
                    THEN [ret |-> NULL, err |-> "MemoryError",
                          heap |-> filled]
                    ELSE [ret |-> cap, err |-> NoError, heap |-> filled]

\* create_point_capsule without the test of PyMem_Malloc's result.
create_point_capsule_NoNullCheck(x, y, name, allocMem, allocCap, g, h) ==
  IF ~({x, y} \subseteq CInt)
  THEN [ret |-> NULL, err |-> "OverflowError", heap |-> h]
  ELSE IF \E i \in DOMAIN name : name[i] = 0
  THEN [ret |-> NULL, err |-> "TypeError", heap |-> h]
  ELSE LET filled == FillPoint(PyMem_Malloc(allocMem, g), x, y, name)
           cap == PyCapsule_New("point", "Point", "point_destructor",
                                allocCap)
       IN  IF cap = NULL
           THEN [ret |-> NULL, err |-> "MemoryError",
                 heap |-> PyMem_Free(filled)]
           ELSE [ret |-> cap, err |-> NoError, heap |-> filled]

\* create_point(x, y, name).  Format "iis": an integer outside the range of
\* int is an OverflowError, a string with a NUL byte a TypeError.
create_point_capsule(x, y, name, allocMem, allocCap, g, h) ==
  IF ~({x, y} \subseteq CInt)
  THEN [ret |-> NULL, err |-> "OverflowError", heap |-> h]
  ELSE IF \E i \in DOMAIN name : name[i] = 0
  THEN [ret |-> NULL, err |-> "TypeError", heap |-> h]
  ELSE LET point == PyMem_Malloc(allocMem, g)
       IN  IF point.state = "none"
           THEN [ret |-> NULL, err |-> "MemoryError", heap |-> h]
           ELSE LET filled == FillPoint(point, x, y, name)
                    cap == PyCapsule_New("point", "Point", "point_destructor",
                                         allocCap)
                IN  IF cap = NULL
                    THEN [ret |-> NULL, err |-> "MemoryError",
                          heap |-> PyMem_Free(filled)]
                    ELSE [ret |-> cap, err |-> NoError, heap |-> filled]

CreatePoint ==
  /\ ~crashed /\ pc = "idle" /\ ~cargs.called
  /\ \E x \in PyIntArgs, y \in PyIntArgs, name \in Names,
        allocMem \in Allocs, allocCap \in Allocs, g \in 0..MaxChar :
       LET a == [called |-> TRUE, x |-> x, y |-> y, name |-> name,
                 allocMem |-> allocMem, allocCap |-> allocCap]
           r == create_point_capsule(x, y, name, allocMem, allocCap, g, heap)
       IN  \* an allocation the call does not reach is not chosen
           /\ ~Accepted(a) => (allocMem /\ allocCap /\ g = 0)
           /\ ~allocMem => (allocCap /\ g = 0)
           /\ ~allocCap => g = 0
           /\ capsule' = r.ret
           /\ heap' = r.heap
           /\ cargs' = a
           /\ ret' = r.ret
           /\ err' = r.err
           /\ failures' = failures + Failed(~allocMem) + Failed(~allocCap)
  /\ op' = Op("create_point", "none")
  /\ UNCHANGED <<foreign, released, crashed>>
  /\ UNCHANGED ivars
  /\ UNCHANGED xvars

\* ------------------------------------------------------------ get_point_data
\* The dict get_point builds.
Dict(x, y, name) ==
  [kind |-> "dict", x |-> x, y |-> y, name |-> name, live |-> TRUE]

\* get_point_data with point->y passed for "x" and point->x for "y".
get_point_data_Swapped(o, h, alloc) ==
  IF o.kind # "capsule" \/ PyCapsule_GetPointer(o, "Point").pointer = "NULL"
  THEN [ret |-> NULL,
        err |-> IF o.kind # "capsule" THEN "TypeError" ELSE "ValueError",
        heap |-> h]
  ELSE IF ~alloc
  THEN [ret |-> NULL, err |-> "MemoryError", heap |-> h]
  ELSE [ret |-> [kind |-> "dict", x |-> h.y, y |-> h.x,
                 name |-> CString(h.mem), live |-> (h.state = "allocated")],
        err |-> NoError, heap |-> h]

\* get_point_data taking the pointer of any capsule, whatever its name
\* (PyCapsule_GetPointer called with the capsule's own name).
get_point_data_NoTagCheck(o, h, alloc) ==
  IF o.kind # "capsule"
  THEN [ret |-> NULL, err |-> "TypeError", heap |-> h]
  ELSE IF ~alloc
  THEN [ret |-> NULL, err |-> "MemoryError", heap |-> h]
  ELSE [ret |-> [kind |-> "dict", x |-> h.x, y |-> h.y,
                 name |-> CString(h.mem), live |-> (h.state = "allocated")],
        err |-> NoError, heap |-> h]

\* get_point_data releasing the payload once it has read it.
get_point_data_FreesPayload(o, h, alloc) ==
  IF o.kind # "capsule"
  THEN [ret |-> NULL, err |-> "TypeError", heap |-> h]
  ELSE LET p == PyCapsule_GetPointer(o, "Point")
       IN  IF p.pointer = "NULL"
           THEN [ret |-> NULL, err |-> p.err, heap |-> h]
           ELSE IF ~alloc
           THEN [ret |-> NULL, err |-> "MemoryError", heap |-> h]
           ELSE [ret |-> [kind |-> "dict", x |-> h.x, y |-> h.y,
                          name |-> CString(h.mem),
                          live |-> (h.state = "allocated")],
                 err |-> NoError, heap |-> PyMem_Free(h)]

\* get_point(o).  The payload is read through the pointer the capsule holds.
get_point_data(o, h, alloc) ==
  IF o.kind # "capsule"
  THEN [ret |-> NULL, err |-> "TypeError", heap |-> h]
  ELSE LET p == PyCapsule_GetPointer(o, "Point")
       IN  IF p.pointer = "NULL"
           THEN [ret |-> NULL, err |-> p.err, heap |-> h]
           ELSE IF ~alloc
           THEN [ret |-> NULL, err |-> "MemoryError", heap |-> h]
           ELSE [ret |-> [kind |-> "dict", x |-> h.x, y |-> h.y,
                          name |-> CString(h.mem),
                          live |-> (h.state = "allocated")],
                 err |-> NoError, heap |-> h]

\* The objects Python code can pass: the Point capsule while it holds a
\* reference to it, the other extension's capsule, and an int.
Passable ==
  (IF capsule.kind = "capsule" THEN {"handle"} ELSE {}) \cup {"foreign", "int"}

Arg(which) ==
  IF which = "handle" THEN capsule
  ELSE IF which = "foreign" THEN foreign
  ELSE IntObj(0)

GetPoint ==
  /\ ~crashed /\ pc = "idle"
  /\ \E which \in Passable, alloc \in Allocs :
       LET r == get_point_data(Arg(which), heap, alloc)
       IN  /\ ~alloc => r.err = "MemoryError"
           /\ heap' = r.heap
           /\ ret' = r.ret
           /\ err' = r.err
           /\ op' = Op("get_point", which)
           /\ failures' = failures + Failed(~alloc)
  /\ UNCHANGED <<capsule, foreign, cargs, released, crashed>>
  /\ UNCHANGED ivars
  /\ UNCHANGED xvars

\* ------------------------------------------------- references and destruction
\* point_destructor asking for the pointer under a name the capsule does not
\* have: PyCapsule_GetPointer returns NULL and nothing is freed.
point_destructor_WrongName(cap, h) ==
  LET p == PyCapsule_GetPointer(cap, "point")
  IN  IF p.pointer # "NULL" THEN PyMem_Free(h) ELSE h

\* The capsule's destructor, called by capsule_dealloc.
point_destructor(cap, h) ==
  LET p == PyCapsule_GetPointer(cap, "Point")
  IN  IF p.pointer # "NULL" THEN PyMem_Free(h) ELSE h

\* Py_DECREF(o): at zero the object is deallocated, and a capsule's
\* deallocation calls the destructor it was created with.
Py_DECREF(o, h, n) ==
  IF o.refcnt > 1
  THEN [obj |-> [o EXCEPT !.refcnt = @ - 1], heap |-> h, released |-> n]
  ELSE IF o.destructor = "point_destructor"
  THEN [obj |-> [o EXCEPT !.refcnt = 0, !.kind = "freed"],
        heap |-> point_destructor(o, h), released |-> n + 1]
  ELSE [obj |-> [o EXCEPT !.refcnt = 0, !.kind = "freed"],
        heap |-> h, released |-> n]

Py_INCREF(o) == [o EXCEPT !.refcnt = @ + 1]

\* Python code binds one more name to the capsule.
AcquireRef ==
  /\ ~crashed /\ pc = "idle"
  /\ capsule.kind = "capsule" /\ capsule.refcnt < MaxRefs
  /\ capsule' = Py_INCREF(capsule)
  /\ op' = Op("incref", "handle")
  /\ UNCHANGED <<foreign, heap, cargs, released, ret, err, crashed, failures>>
  /\ UNCHANGED ivars
  /\ UNCHANGED xvars

\* Python code drops a reference it holds; dropping the last destroys the
\* capsule.
DropRef ==
  /\ ~crashed /\ pc = "idle"
  /\ capsule.kind = "capsule"
  /\ LET r == Py_DECREF(capsule, heap, released)
     IN  /\ capsule' = r.obj
         /\ heap' = r.heap
         /\ released' = r.released
  /\ op' = Op("decref", "handle")
  /\ UNCHANGED <<foreign, cargs, ret, err, crashed, failures>>
  /\ UNCHANGED ivars
  /\ UNCHANGED xvars

\* ============================================================ basics_module
TupleObj(items) == [kind |-> "tuple", items |-> items]
IntCard == IntMax - IntMin + 1
\* Two's-complement wrap of a mathematical integer into an int.
WrapInt(v) == ((v - IntMin) % IntCard) + IntMin
Abs(v) == IF v < 0 THEN -v ELSE v

\* a / b and a % b of C: the quotient truncates toward zero and the
\* remainder has the sign of the dividend.
CDiv(a, b) ==
  LET q == Abs(a) \div Abs(b) IN IF (a < 0) # (b < 0) THEN -q ELSE q
CMod(a, b) == a - CDiv(a, b) * b

\* The outcome of a call of a module function.
Outcome(r, e, trap, oom) == [ret |-> r, err |-> e, trap |-> trap, oom |-> oom]
Trap == Outcome(NULL, NoError, TRUE, FALSE)
\* Py_BuildValue of an object made of v: NULL with MemoryError set when the
\* allocation fails.
Py_BuildValue(v, alloc) ==
  IF alloc THEN Outcome(v, NoError, FALSE, FALSE)
           ELSE Outcome(NULL, "MemoryError", FALSE, TRUE)

\* add_numbers(a, b), the same code in basics_module and example_module.
\* Format "ii": an argument outside the range of int is an OverflowError.
\* a + b is computed in int: outside its range the behaviour is undefined,
\* and a build either wraps or traps.
add_numbers(a, b, alloc) ==
  IF ~({a, b} \subseteq CInt)
  THEN {Outcome(NULL, "OverflowError", FALSE, FALSE)}
  ELSE IF a + b \in CInt
  THEN {Py_BuildValue(IntObj(a + b), alloc)}
  ELSE {Py_BuildValue(IntObj(WrapInt(a + b)), alloc), Trap}

AddNumbers(module) ==
  /\ ~crashed /\ pc = "idle"
  /\ \E a \in PyIntArgs, b \in PyIntArgs, alloc \in Allocs :
       \E o \in add_numbers(a, b, alloc) :
         /\ ~alloc => o.oom
         /\ args' = [fn |-> "add_numbers", a |-> a, b |-> b]
         /\ ret' = o.ret
         /\ err' = o.err
         /\ crashed' = o.trap
         /\ failures' = failures + Failed(o.oom)
  /\ op' = Op("add_numbers", module)
  /\ UNCHANGED <<objs, made, got>>
  /\ UNCHANGED ivars
  /\ UNCHANGED cvars

\* divmod(a, b).  Format "ll".  a / b and a % b overflow for a = LONG_MIN,
\* b = -1: undefined behaviour, a division trap on some machines and the
\* wrapped quotient with remainder 0 on others.
divmod_operation(a, b, alloc) ==
  IF ~({a, b} \subseteq Long)
  THEN {Outcome(NULL, "OverflowError", FALSE, FALSE)}
  ELSE IF b = 0
  THEN {Outcome(NULL, "ZeroDivisionError", FALSE, FALSE)}
  ELSE IF CDiv(a, b) \in Long
  THEN {Py_BuildValue(TupleObj(<<CDiv(a, b), CMod(a, b)>>), alloc)}
  ELSE {Py_BuildValue(TupleObj(<<WrapLong(CDiv(a, b)), 0>>), alloc), Trap}

DivmodOperation ==
  /\ ~crashed /\ pc = "idle"
  /\ \E a \in PyLongArgs, b \in PyLongArgs, alloc \in Allocs :
       \E o \in divmod_operation(a, b, alloc) :
         /\ ~alloc => o.oom
         /\ args' = [fn |-> "divmod", a |-> a, b |-> b]
         /\ ret' = o.ret
         /\ err' = o.err
         /\ crashed' = o.trap
         /\ failures' = failures + Failed(o.oom)
  /\ op' = Op("divmod", "basics_module")
  /\ UNCHANGED <<objs, made, got>>
  /\ UNCHANGED ivars
  /\ UNCHANGED cvars

\* ======================================================== exceptions_module
StrObj(s) == [kind |-> "str", s |-> s]
FloatObj(num, den) == [kind |-> "float", num |-> num, den |-> den]
\* The dict get_exception_info returns.
InfoObj(type, keys) == [kind |-> "info", type |-> type, keys |-> keys]

\* The exceptions a callable raises; UnicodeError is a subclass of ValueError
\* and KeyError one of LookupError.  Calling an object that is not callable
\* raises TypeError.
Raised == {"ValueError", "UnicodeError", "TypeError", "KeyError",
           "RuntimeError"}
Bases(e) ==
  IF e = "UnicodeError" THEN {"UnicodeError", "ValueError"}
  ELSE IF e = "KeyError" THEN {"KeyError", "LookupError"}
  ELSE {e}
\* What a callable does when called without arguments: return a value, or
\* raise an exception, whose value str() formats or fails on.
Callees ==
  {[raises |-> "none", strOk |-> TRUE]} \cup [raises : Raised, strOk : BOOLEAN]

PyErr_ExceptionMatches(slot, cls) == cls \in Bases(slot)
PyObject_CallObject(callee) ==
  IF callee.raises = "none" THEN [result |-> None, err |-> NoError]
                            ELSE [result |-> NULL, err |-> callee.raises]
\* PyString_FromString with `slot` pending: a new string, or NULL with
\* MemoryError set.
PyString_FromString(str, slot, alloc) ==
  IF alloc THEN Outcome(StrObj(str), slot, FALSE, FALSE)
           ELSE Outcome(NULL, "MemoryError", FALSE, TRUE)

\* check_and_clear_error leaving the error it caught pending.
check_and_clear_error_NoClear(callee, alloc) ==
  LET c == PyObject_CallObject(callee)
  IN  IF c.result = NULL /\ c.err # NoError
      THEN PyString_FromString("Exception was caught and cleared", c.err,
                               alloc)
      ELSE PyString_FromString("No exception occurred", c.err, alloc)

check_and_clear_error(callee, alloc) ==
  LET c == PyObject_CallObject(callee)
  IN  IF c.result = NULL /\ c.err # NoError
      THEN PyString_FromString("Exception was caught and cleared", NoError,
                               alloc)
      ELSE PyString_FromString("No exception occurred", c.err, alloc)

\* check_exception_type comparing the pending type with == instead of
\* PyErr_ExceptionMatches.
check_exception_type_ExactMatch(callee, alloc) ==
  LET c == PyObject_CallObject(callee)
  IN  IF c.result = NULL
      THEN IF c.err = "ValueError"
           THEN PyString_FromString("ValueError caught", NoError, alloc)
           ELSE IF c.err = "TypeError"
           THEN PyString_FromString("TypeError caught", NoError, alloc)
           ELSE PyString_FromString("Other exception caught", NoError, alloc)
      ELSE PyString_FromString("No exception", c.err, alloc)

check_exception_type(callee, alloc) ==
  LET c == PyObject_CallObject(callee)
  IN  IF c.result = NULL
      THEN IF PyErr_ExceptionMatches(c.err, "ValueError")
           THEN PyString_FromString("ValueError caught", NoError, alloc)
           ELSE IF PyErr_ExceptionMatches(c.err, "TypeError")
           THEN PyString_FromString("TypeError caught", NoError, alloc)
           ELSE PyString_FromString("Other exception caught", NoError, alloc)
      ELSE PyString_FromString("No exception", c.err, alloc)

\* The allocation of get_exception_info that fails, if one does: PyDict_New,
\* PyObject_Str, or one inside PyDict_SetItemString.
AllocPoints ==
  IF failures < MaxFailures THEN {"none", "dict", "str", "setitem"}
                            ELSE {"none"}

\* get_exception_info.  PyErr_Fetch empties the error slot.  No result is
\* tested: PyDict_SetItemString on the NULL of a failed PyDict_New, or with
\* the NULL of a failed PyObject_Str as the value, dereferences NULL; a
\* failure inside PyDict_SetItemString leaves MemoryError pending and the
\* dict without the key.
get_exception_info(callee, fail) ==
  LET c == PyObject_CallObject(callee)
  IN  IF c.result # NULL
      THEN Outcome(None, c.err, FALSE, FALSE)
      ELSE IF fail = "dict"
      THEN Outcome(NULL, "MemoryError", TRUE, TRUE)
      ELSE IF fail = "str"
      THEN Outcome(NULL, "MemoryError", TRUE, TRUE)
      ELSE IF ~callee.strOk
      THEN Outcome(NULL, "raised by str", TRUE, FALSE)
      ELSE IF fail = "setitem"
      THEN Outcome(InfoObj(c.err, {"value", "has_traceback"}), "MemoryError",
                   FALSE, TRUE)
      ELSE Outcome(InfoObj(c.err, {"type", "value", "has_traceback"}),
                   NoError, FALSE, FALSE)

\* A finished call of fn of exceptions_module with outcome o.
Return(fn, a, o) ==
  /\ args' = a
  /\ op' = Op(fn, "exceptions_module")
  /\ ret' = o.ret
  /\ err' = o.err
  /\ crashed' = o.trap
  /\ failures' = failures + Failed(o.oom)
  /\ UNCHANGED <<objs, made, got>>
  /\ UNCHANGED ivars
  /\ UNCHANGED cvars

CheckAndClear ==
  /\ ~crashed /\ pc = "idle"
  /\ \E callee \in Callees, alloc \in Allocs :
       LET o == check_and_clear_error(callee, alloc)
       IN  /\ ~alloc => o.oom
           /\ Return("check_and_clear", [fn |-> "check_and_clear",
                                         callee |-> callee], o)

CheckExceptionType ==
  /\ ~crashed /\ pc = "idle"
  /\ \E callee \in Callees, alloc \in Allocs :
       LET o == check_exception_type(callee, alloc)
       IN  /\ ~alloc => o.oom
           /\ Return("check_exception_type",
                     [fn |-> "check_exception_type", callee |-> callee], o)

GetExceptionInfo ==
  /\ ~crashed /\ pc = "idle"
  /\ \E callee \in Callees, fail \in AllocPoints :
       LET o == get_exception_info(callee, fail)
       IN  /\ fail # "none" => o.oom
           /\ Return("get_exception_info",
                     [fn |-> "get_exception_info", callee |-> callee], o)

\* The doubles passed to safe_divide, as integers.
Doubles == -MaxDouble..MaxDouble

\* safe_divide returning a / b for b = 0.0 too (an infinity or a NaN).
safe_divide_NoZeroCheck(a, b, alloc) ==
  IF alloc THEN Outcome(FloatObj(a, b), NoError, FALSE, FALSE)
           ELSE Outcome(NULL, "MemoryError", FALSE, TRUE)

\* safe_divide(a, b).  Format "dd"; the quotient is kept as the pair (a, b).
safe_divide(a, b, alloc) ==
  IF b = 0 THEN Outcome(NULL, "ZeroDivisionError", FALSE, FALSE)
  ELSE IF alloc THEN Outcome(FloatObj(a, b), NoError, FALSE, FALSE)
  ELSE Outcome(NULL, "MemoryError", FALSE, TRUE)

SafeDivide ==
  /\ ~crashed /\ pc = "idle"
  /\ \E a \in Doubles, b \in Doubles, alloc \in Allocs :
       LET o == safe_divide(a, b, alloc)
       IN  /\ ~alloc => o.oom
           /\ Return("safe_divide", [fn |-> "safe_divide", a |-> a, b |-> b],
                     o)

\* nested_call_demo.  divide_args is not tested: when Py_BuildValue fails,
\* safe_divide parses NULL, a NULL dereference in PyArg_ParseTuple.
nested_call_demo(allocArgs, allocFloat) ==
  IF ~allocArgs THEN Outcome(NULL, "MemoryError", TRUE, TRUE)
  ELSE LET r == safe_divide(Dividend, Divisor, allocFloat)
       IN  IF r.ret = NULL THEN r
           ELSE Outcome(None, NoError, FALSE, FALSE)

NestedCallDemo ==
  /\ ~crashed /\ pc = "idle"
  /\ \E allocArgs \in Allocs, allocFloat \in Allocs :
       LET o == nested_call_demo(allocArgs, allocFloat)
       IN  /\ (~allocArgs \/ ~allocFloat) => o.oom
           /\ allocArgs \/ allocFloat
           /\ Return("nested_call_demo", [fn |-> "nested_call_demo"], o)

\* set_and_check.  dict is not tested: Py_DECREF of the NULL of a failed
\* PyDict_New dereferences NULL.
set_and_check(alloc) ==
  IF ~alloc THEN Outcome(NULL, "RuntimeError", TRUE, TRUE)
  ELSE Outcome(NULL, "RuntimeError", FALSE, FALSE)

SetAndCheck ==
  /\ ~crashed /\ pc = "idle"
  /\ \E alloc \in Allocs :
       LET o == set_and_check(alloc)
       IN  /\ ~alloc => o.oom
           /\ Return("set_and_check", [fn |-> "set_and_check"], o)

\* ============================================================ memory_module
\* The objects a caller hands to memory_module.
Objects == {"o1", "o2"}
\* An object with ob_refcnt n and no destructor.
PyObj(n) == [kind |-> "object", refcnt |-> n, destructor |-> "NULL"]

\* The objects a call creates, NULL where it created none: exception_safe's
\* list and item, and the dict, new_int and reference-count int of
\* borrowed_ref_demo and owned_ref_demo.
NoneMade ==
  [list |-> NULL, item |-> NULL, dict |-> NULL, new_int |-> NULL,
   count |-> NULL]
\* Py_XDECREF(o) of an object whose deallocation releases nothing else.  A
\* count of 0 is a released object, one below 0 a reference released twice.
Py_XDECREF(o) == IF o = NULL THEN NULL ELSE [o EXCEPT !.refcnt = @ - 1]

\* get_refcount(obj).
get_refcount(obj, alloc) ==
  IF alloc THEN [ret |-> IntObj(obj.refcnt), err |-> NoError, obj |-> obj]
           ELSE [ret |-> NULL, err |-> "MemoryError", obj |-> obj]

\* incref_demo without the Py_DECREF that restores the count.
incref_demo_NoDecref(obj, alloc) ==
  LET before == obj.refcnt
      held == Py_INCREF(obj)
      after == held.refcnt
  IN  IF alloc
      THEN [ret |-> TupleObj(<<before, after>>), err |-> NoError, obj |-> held]
      ELSE [ret |-> NULL, err |-> "MemoryError", obj |-> held]

\* incref_demo(obj).
incref_demo(obj, alloc) ==
  LET before == obj.refcnt
      held == Py_INCREF(obj)
      after == held.refcnt
      restored == Py_DECREF(held, heap, released).obj
  IN  IF alloc
      THEN [ret |-> TupleObj(<<before, after>>), err |-> NoError,
            obj |-> restored]
      ELSE [ret |-> NULL, err |-> "MemoryError", obj |-> restored]

\* ------------------------------------------------------- exception_safe_demo
\* The step of exception_safe that fails, if one does: PyList_New, or the
\* PyInt_FromLong or PyList_Append of iteration i.
FailPoints ==
  IF failures < MaxFailures
  THEN {[at |-> "none", i |-> 0], [at |-> "list", i |-> 0]}
         \cup [at : {"int", "append"}, i : 0..(Squares - 1)]
  ELSE {[at |-> "none", i |-> 0]}

\* The loop of exception_safe_demo from iteration i on, with the items
\* appended so far.  `ok` is FALSE where the loop left through goto error;
\* `item` is the local of that name as the loop leaves it.
RECURSIVE exception_safe_loop(_, _, _)
exception_safe_loop(i, items, fail) ==
  IF i >= Squares
  THEN [items |-> items, item |-> NULL, ok |-> TRUE]
  ELSE IF fail = [at |-> "int", i |-> i]
  THEN [items |-> items, item |-> NULL, ok |-> FALSE]
  ELSE IF fail = [at |-> "append", i |-> i]
  THEN [items |-> items, item |-> Py_XDECREF(PyObj(1)), ok |-> FALSE]
  ELSE exception_safe_loop(i + 1, Append(items, i * i), fail)

\* exception_safe().  After a failed PyList_Append the item is released and
\* the pointer kept, and the error exit releases it again: a second
\* Py_DECREF of a released object, undefined behaviour that either goes
\* unnoticed or kills the process.
exception_safe_demo(fail) ==
  IF fail.at = "list"
  THEN {[ret |-> NULL, err |-> "MemoryError", trap |-> FALSE,
         made |-> NoneMade]}
  ELSE LET l == exception_safe_loop(0, <<>>, fail)
           list == PyObj(1)
       IN  IF l.ok
           THEN {[ret |-> ListObj(l.items), err |-> NoError, trap |-> FALSE,
                  made |-> [NoneMade EXCEPT !.list = list]]}
           ELSE LET m == [NoneMade EXCEPT !.list = Py_XDECREF(list),
                                          !.item = Py_XDECREF(l.item)]
                IN  IF l.item # NULL /\ l.item.refcnt < 1
                    THEN {[ret |-> NULL, err |-> "MemoryError",
                           trap |-> t, made |-> m] : t \in BOOLEAN}
                    ELSE {[ret |-> NULL, err |-> "MemoryError",
                           trap |-> FALSE, made |-> m]}

ExceptionSafe ==
  /\ ~crashed /\ pc = "idle"
  /\ \E fail \in FailPoints :
       \E o \in exception_safe_demo(fail) :
         /\ args' = [fn |-> "exception_safe", fail |-> fail]
         /\ ret' = o.ret
         /\ err' = o.err
         /\ crashed' = o.trap
         /\ made' = o.made
         /\ failures' = failures + Failed(fail.at # "none")
  /\ op' = Op("exception_safe", "memory_module")
  /\ UNCHANGED <<objs, got>>
  /\ UNCHANGED ivars
  /\ UNCHANGED cvars

\* ------------------------------------ borrowed_ref_demo and owned_ref_demo
\* The dict the two functions return: the keys it holds and the reference
\* count stored under "refcount".
InfoDict(keys, refcount) ==
  [kind |-> "dict", keys |-> keys, refcount |-> refcount]

\* The allocation of the two functions that fails, if one does:
\* PyInt_FromLong (owned_ref_demo only), PyDict_New, the first
\* PyDict_SetItemString, PyInt_FromSsize_t, the second PyDict_SetItemString.
RefFailPoints ==
  IF failures < MaxFailures
  THEN {"none", "new_int", "dict", "first", "count", "second"}
  ELSE {"none"}

\* The code the two functions share, from PyDict_New to the return, on the
\* object obj the function holds a reference to, stored under `key`.  The
\* results of PyDict_New, PyInt_FromSsize_t and PyDict_SetItemString are not
\* tested: a NULL dict or a NULL value is dereferenced by
\* PyDict_SetItemString, a failed insertion leaves MemoryError pending.  The
\* reference PyInt_FromSsize_t returns is never released by the function.
BuildInfo(obj, key, fail) ==
  IF fail = "dict" \/ fail = "count"
  THEN [ret |-> NULL, err |-> "MemoryError", trap |-> TRUE, obj |-> obj,
        dict |-> NULL, count |-> NULL]
  ELSE LET stored == IF fail = "first" THEN obj ELSE Py_INCREF(obj)
           refs == PyObj(IF fail = "second" THEN 1 ELSE 2)
           keys == (IF fail = "first" THEN {} ELSE {key})
                     \cup (IF fail = "second" THEN {} ELSE {"refcount"})
       IN  [ret |-> InfoDict(keys, stored.refcnt),
            err |-> IF fail = "none" THEN NoError ELSE "MemoryError",
            trap |-> FALSE,
            obj |-> Py_XDECREF(stored),
            dict |-> PyObj(1), count |-> refs]

\* borrowed_ref_demo(lst).  item is lst[0], NULL for an empty list.
borrowed_reference_demo(item, fail) ==
  IF item = NULL
  THEN [ret |-> NULL, err |-> "ValueError", trap |-> FALSE, obj |-> NULL,
        dict |-> NULL, count |-> NULL]
  ELSE BuildInfo(Py_INCREF(item), "item", fail)

\* owned_ref_demo(value).  Format "i".
owned_reference_demo(value, fail) ==
  IF value \notin CInt
  THEN [ret |-> NULL, err |-> "OverflowError", trap |-> FALSE, obj |-> NULL,
        dict |-> NULL, count |-> NULL]
  ELSE IF fail = "new_int"
  THEN [ret |-> NULL, err |-> "MemoryError", trap |-> FALSE, obj |-> NULL,
        dict |-> NULL, count |-> NULL]
  ELSE BuildInfo(PyObj(1), "value", fail)

\* The first item of the list passed to borrowed_ref_demo: one of the
\* objects, or none for an empty list.
FirstItems == Objects \cup {"empty"}

BorrowedRefDemo ==
  /\ ~crashed /\ pc = "idle"
  /\ \E first \in FirstItems, fail \in RefFailPoints :
       LET item == IF first = "empty" THEN NULL ELSE PyObj(objs[first])
           r == borrowed_reference_demo(item, fail)
       IN  /\ fail # "new_int"
           /\ first = "empty" => fail = "none"
           \* a dict the caller keeps holds one of the references counted
           /\ first # "empty" => objs[first] <= MaxNames
           /\ objs' = IF first = "empty" THEN objs
                      ELSE [objs EXCEPT ![first] = r.obj.refcnt]
           /\ args' = [fn |-> "borrowed_ref_demo", obj |-> first,
                       before |-> objs]
           /\ made' = [NoneMade EXCEPT !.dict = r.dict, !.count = r.count]
           /\ ret' = r.ret
           /\ err' = r.err
           /\ crashed' = r.trap
           /\ failures' = failures + Failed(fail # "none")
  /\ op' = Op("borrowed_ref_demo", "memory_module")
  /\ UNCHANGED got
  /\ UNCHANGED ivars
  /\ UNCHANGED cvars

OwnedRefDemo ==
  /\ ~crashed /\ pc = "idle"
  /\ \E value \in PyIntArgs, fail \in RefFailPoints :
       LET r == owned_reference_demo(value, fail)
       IN  /\ value \notin CInt => fail = "none"
           /\ args' = [fn |-> "owned_ref_demo", obj |-> "new_int",
                       before |-> objs]
           /\ made' = [NoneMade EXCEPT !.dict = r.dict, !.count = r.count,
                                       !.new_int = r.obj]
           /\ ret' = r.ret
           /\ err' = r.err
           /\ crashed' = r.trap
           /\ failures' = failures + Failed(fail # "none")
  /\ op' = Op("owned_ref_demo", "memory_module")
  /\ UNCHANGED <<objs, got>>
  /\ UNCHANGED ivars
  /\ UNCHANGED cvars

\* The caller releases the dict one of the two functions returned: the dict
\* is deallocated and releases the reference it holds to each of its values.
ReleaseResult ==
  /\ ~crashed /\ pc = "idle"
  /\ op.fn \in {"borrowed_ref_demo", "owned_ref_demo"}
  /\ ret.kind = "dict"
  /\ made' = [made EXCEPT
               !.dict = Py_XDECREF(@),
               !.count = IF "refcount" \in ret.keys THEN Py_XDECREF(@) ELSE @,
               !.new_int = IF "value" \in ret.keys THEN Py_XDECREF(@) ELSE @]
  /\ objs' = IF "item" \in ret.keys
             THEN [objs EXCEPT ![args.obj] = Py_XDECREF(PyObj(@)).refcnt]
             ELSE objs
  /\ ret' = None
  /\ op' = Op("release_result", "memory_module")
  /\ UNCHANGED <<args, got, err, crashed, failures>>
  /\ UNCHANGED ivars
  /\ UNCHANGED cvars

\* A call of fn on object o; r is what fn does with the object as the call
\* sees it: the argument tuple holds one more reference to o for the time of
\* the call.
CallOnObject(fn, o, r, alloc) ==
  /\ objs' = [objs EXCEPT ![o] = r.obj.refcnt - 1]
  /\ args' = [fn |-> fn, obj |-> o]
  /\ op' = Op(fn, "memory_module")
  /\ ret' = r.ret
  /\ err' = r.err
  /\ failures' = failures + Failed(~alloc)
  /\ made' = NoneMade
  /\ UNCHANGED <<crashed, got>>
  /\ UNCHANGED ivars
  /\ UNCHANGED cvars

GetRefcount ==
  /\ ~crashed /\ pc = "idle"
  /\ \E o \in Objects, alloc \in Allocs :
       CallOnObject("get_refcount", o,
                    get_refcount(PyObj(objs[o] + 1), alloc), alloc)

IncrefDemo ==
  /\ ~crashed /\ pc = "idle"
  /\ \E o \in Objects, alloc \in Allocs :
       CallOnObject("incref_demo", o,
                    incref_demo(PyObj(objs[o] + 1), alloc), alloc)

\* Python code binds one more name to an object, or unbinds one of several.
BindName ==
  /\ ~crashed /\ pc = "idle"
  /\ \E o \in Objects :
       /\ objs[o] < MaxNames
       /\ objs' = [objs EXCEPT ![o] = Py_INCREF(PyObj(@)).refcnt]
  /\ op' = Op("bind", "memory_module")
  /\ UNCHANGED <<args, made, got, ret, err, crashed, failures>>
  /\ UNCHANGED ivars
  /\ UNCHANGED cvars

UnbindName ==
  /\ ~crashed /\ pc = "idle"
  /\ \E o \in Objects :
       /\ objs[o] > 1
       /\ objs' = [objs EXCEPT
                     ![o] = Py_DECREF(PyObj(@), heap, released).obj.refcnt]
  /\ op' = Op("unbind", "memory_module")
  /\ UNCHANGED <<args, made, got, ret, err, crashed, failures>>
  /\ UNCHANGED ivars
  /\ UNCHANGED cvars

Init ==
  /\ iter = NULL
  /\ iterArgs = [start |-> 0, stop |-> 0, step |-> 1, nargs |-> 2]
  /\ ends = 0
  /\ use = "fresh"
  /\ caller = "none"
  /\ pc = "idle"
  /\ result = NULL
  /\ count = 0
  /\ capsule = NULL
  /\ foreign = PyCapsule_New("ext", "NotPoint", "NULL", TRUE)
  /\ heap = PyMem_Malloc(FALSE, 0)
  /\ cargs = [called |-> FALSE, x |-> 0, y |-> 0, name |-> <<>>,
              allocMem |-> TRUE, allocCap |-> TRUE]
  /\ released = 0
  /\ op = Op("none", "none")
  /\ ret = None
  /\ err = NoError
  /\ crashed = FALSE
  /\ failures = 0
  /\ args = [fn |-> "none"]
  /\ objs = [o \in Objects |-> 1]
  /\ made = NoneMade
  /\ got = <<>>

\* ------------------------------------------------------------ specifications
PullA == Pull("A")
PullB == Pull("B")

NextIter ==
  \/ CreateRangeIterator
  \/ PullA
  \/ PullB
  \/ IterateBegin
  \/ IterateStep

NextCapsule ==
  \/ CreatePoint
  \/ GetPoint
  \/ AcquireRef
  \/ DropRef

\* The iterator and its callers.
SpecIter == Init /\ [][NextIter]_vars

\* Direct pulls alone, by callers that go on pulling for as long as they may.
NextPull ==
  \/ CreateRangeIterator
  \/ PullA
  \/ PullB

SharedPullA == SharedPull("A")
SharedPullB == SharedPull("B")

\* Two callers share one iterator and pull from it in any order, one whole
\* pull after the other.
NextShared ==
  \/ CreateRangeIterator
  \/ SharedPullA
  \/ SharedPullB

SpecShared == Init /\ [][NextShared]_vars

FairSpecPull ==
  Init /\ [][NextPull]_vars /\ WF_vars(PullA) /\ WF_vars(PullB)

\* The capsule and the Python code holding it.
AddNumbersBasics == AddNumbers("basics_module")
AddNumbersExample == AddNumbers("example_module")

NextBasics ==
  \/ AddNumbersBasics
  \/ AddNumbersExample
  \/ DivmodOperation

SpecBasics == Init /\ [][NextBasics]_vars

NextExceptions ==
  \/ CheckAndClear
  \/ CheckExceptionType
  \/ GetExceptionInfo
  \/ SafeDivide
  \/ NestedCallDemo
  \/ SetAndCheck

SpecExceptions == Init /\ [][NextExceptions]_vars

NextMemory ==
  \/ GetRefcount
  \/ IncrefDemo
  \/ ExceptionSafe
  \/ BorrowedRefDemo
  \/ OwnedRefDemo
  \/ ReleaseResult
  \/ BindName
  \/ UnbindName

SpecMemory == Init /\ [][NextMemory]_vars

SpecCapsule == Init /\ [][NextCapsule]_vars

\* ------------------------------------------------------------------ claims
\* The integers a, a+1, ..., b-1 in order; empty when a >= b.
Range(a, b) == [i \in 1..(IF b > a THEN b - a ELSE 0) |-> a + i - 1]

\* No step of the behaviour met an allocation failure.
NoFailure == failures = 0

\* C1: draining a fresh range iterator created with step 1 returns exactly
\* the list start, start+1, ..., stop-1 (the empty list when start >= stop),
\* provided no allocation fails.
C1_DrainStepOne ==
  (use = "draining" /\ pc = "idle" /\ iterArgs.step = 1 /\ NoFailure)
    => (ret = ListObj(Range(iterArgs.start, iterArgs.stop)) /\ err = NoError)

\* C1 witness: a finished drain of a fresh default-step iterator that
\* returned three or more values.
C1_Witness ==
  /\ use = "draining" /\ pc = "idle" /\ op.fn = "iterate" /\ NoFailure
  /\ iterArgs.step = 1 /\ iterArgs.nargs = 2
  /\ ret.kind = "list" /\ Len(ret.items) >= 3

\* C2: with a negative step a pull returns the current value while
\* current > stop and signals End otherwise.
C2_NegativeStepCountsDown ==
  [][(op'.fn = "next" /\ iter.step < 0 /\ ~crashed' /\ failures' = failures)
       => IF iter.current > iter.stop
          THEN ret' = IntObj(iter.current)
          ELSE ret' = NULL /\ err' = "StopIteration"]_vars

\* C3: every iterator that exists has a step other than 0.
C3_StepNeverZero == (iter # NULL) => (iter.step # 0)

\* C4: once a pull on the iterator has returned End, every later pull
\* returns End, whether made directly or by iterate's loop (which then
\* leaves the loop at once).
C4_EndIsFinal ==
  [][(ends > 0)
       => /\ (op'.fn = "next") => (ret' = NULL /\ err' = "StopIteration")
          /\ (pc = "loop") => (pc' = "idle" /\ ~crashed')
          /\ iter' = iter]_vars

\* C4 witness: three pulls or more have returned End, the last a direct one.
C4_Witness == ends >= 3 /\ op.fn = "next" /\ ret = NULL /\ err = "StopIteration"

\* C5: on every iterator that was constructed, callers that go on pulling
\* eventually get End (a process killed by a trap has ended too).
C5_PullsReachEnd == (iter # NULL) ~> (ends > 0 \/ crashed)

\* The last call was get_point on the Point capsule and it returned a dict.
ReadHandle == op = Op("get_point", "handle") /\ ret.kind = "dict"

\* C6 as stated: for all integers x, y and every name shorter than the
\* buffer, create_point(x, y, name) gives a handle that get_point reads back
\* as {x, y, name} (no allocation failing).
C6_RoundTripAllIntegers ==
  (op.fn = "create_point" /\ NoFailure /\ Len(cargs.name) < NameSize)
    => /\ capsule.kind = "capsule"
       /\ get_point_data(capsule, heap, TRUE).ret
            = Dict(cargs.x, cargs.y, cargs.name)

\* C6 amended: the round trip holds for x, y in the range of C int and every
\* name without NUL bytes that is shorter than the buffer, no allocation
\* failing; and every dict get_point returns for such a handle is
\* {x, y, name}.
C6_RoundTrip ==
  /\ (op.fn = "create_point" /\ NoFailure /\ Accepted(cargs)
        /\ Len(cargs.name) < NameSize)
       => /\ capsule.kind = "capsule"
          /\ get_point_data(capsule, heap, TRUE).ret
               = Dict(cargs.x, cargs.y, cargs.name)
  /\ (ReadHandle /\ Len(cargs.name) < NameSize)
       => ret = Dict(cargs.x, cargs.y, cargs.name)

\* C6 witness: get_point returned the dict of a handle whose name fills the
\* buffer up to its last character and whose x and y differ.
C6_Witness ==
  ReadHandle /\ Len(cargs.name) = NameSize - 1 /\ cargs.x # cargs.y

\* C7: get_point on a capsule of another name, or on an object that is no
\* capsule, fails (ValueError for the name, TypeError for the type), returns
\* no data and changes nothing: both capsules and the payload are as before,
\* nothing is released, and each capsule still gives its pointer under its
\* own name.
C7_MismatchFailsCleanly ==
  [][(op'.fn = "get_point" /\ op'.arg # "handle")
       => /\ ret' = NULL
          /\ err' = (IF op'.arg = "int" THEN "TypeError" ELSE "ValueError")
          /\ UNCHANGED <<capsule, foreign, heap, released>>
          /\ PyCapsule_GetPointer(foreign', foreign'.name).pointer = "ext"
          /\ (capsule.kind = "capsule")
               => get_point_data(capsule', heap', TRUE).ret
                    = Dict(heap.x, heap.y, CString(heap.mem))]_vars

\* C7 witness: get_point has just failed on the capsule named "NotPoint"
\* while a live Point capsule exists.
C7_Witness ==
  /\ op = Op("get_point", "foreign") /\ ret = NULL /\ err = "ValueError"
  /\ capsule.kind = "capsule" /\ heap.state = "allocated"

\* C8: create_point accepts a name of any length; only bytes of the name
\* buffer are written, the buffer holds a NUL byte, and the name stored and
\* read back is the first NameSize-1 characters of the argument.
C8_NameTruncated ==
  /\ (op.fn = "create_point" /\ NoFailure /\ Accepted(cargs))
       => capsule.kind = "capsule"
  /\ (heap.state # "none")
       => /\ heap.written \subseteq 0..(NameSize - 1)
          /\ \A i \in Offsets : i >= NameSize => heap.mem[i] = MaxChar
          /\ strlen(heap.mem, 0) < NameSize
          /\ CString(heap.mem) = Prefix(cargs.name, NameSize - 1)
  /\ ReadHandle => ret.name = Prefix(cargs.name, NameSize - 1)

\* C8 witness: get_point returned a name of NameSize-1 characters for a
\* handle created with a longer name.
C8_Witness ==
  ReadHandle /\ Len(cargs.name) > NameSize /\ Len(ret.name) = NameSize - 1

\* C9: the payload is freed by point_destructor exactly once, when the last
\* reference to the capsule is dropped: never while the capsule lives, once
\* when it is gone, and never twice.
C9_FreedExactlyOnce ==
  /\ released <= 1 /\ heap.frees <= 1
  /\ (capsule.kind = "capsule")
       => (released = 0 /\ heap.frees = 0 /\ heap.state = "allocated")
  /\ (capsule.kind = "freed")
       => (released = 1 /\ heap.frees = 1 /\ heap.state = "freed")

\* C9 witness: the capsule has been destroyed by the drop of its last
\* reference and its payload freed.
C9_Witness ==
  capsule.kind = "freed" /\ op = Op("decref", "handle") /\ heap.state = "freed"

\* get_point is only ever called on a capsule that still has a reference,
\* and every dict it returns was read from an allocated payload.
ReadsOnlyLiveHandles ==
  /\ (op = Op("get_point", "handle")) => capsule.kind = "capsule"
  /\ (ret.kind = "dict") => ret.live

\* C11: iterate is fail-fast.  When an error is pending after one or more
\* items were collected, or the pull that ends the loop raises one, the call
\* returns failure with an error set, never a list.
C11_DrainFailFast ==
  [][(/\ pc = "loop" /\ pc' = "idle" /\ ~crashed'
      /\ count > 0
      /\ (err # NoError \/ failures' > failures))
       => (ret' = NULL /\ err' # NoError)]_vars

\* C12: when the allocation of the payload fails, create_point fails with
\* MemoryError and returns no handle, and neither a payload nor a handle is
\* allocated then or later.
C12_PayloadAllocFailure ==
  (cargs.called /\ ~cargs.allocMem)
    => /\ capsule = NULL
       /\ heap.state = "none" /\ heap.frees = 0
       /\ released = 0
       /\ op.fn = "create_point" => (ret = NULL /\ err = "MemoryError")

C12_Witness ==
  /\ op.fn = "create_point" /\ Accepted(cargs) /\ ~cargs.allocMem
  /\ ret = NULL /\ err = "MemoryError"

\* Every reference to o dropped, one Py_DECREF after the other.
RECURSIVE DropAll(_, _, _)
DropAll(o, h, n) ==
  IF o.kind # "capsule" THEN [obj |-> o, heap |-> h, released |-> n]
  ELSE LET r == Py_DECREF(o, h, n) IN DropAll(r.obj, r.heap, r.released)

\* C13: a successful read changes nothing.  The capsule (tag, release
\* callback, references), the payload (x, y, name, liveness) and the number
\* of releases are the same after get_point as before, another read would
\* return the same dict, and dropping the handle's references afterwards
\* frees the payload exactly once.
C13_ReadChangesNothing ==
  [][(op' = Op("get_point", "handle") /\ ret'.kind = "dict")
       => /\ UNCHANGED <<capsule, heap, released, foreign>>
          /\ get_point_data(capsule', heap', TRUE).ret = ret'
          /\ get_point_data(capsule', heap', TRUE).heap = heap
          /\ LET d == DropAll(capsule', heap', released')
             IN  /\ d.heap.state = "freed" /\ d.heap.frees = 1
                 /\ d.released = 1]_vars

C13_Witness ==
  /\ ReadHandle /\ capsule.refcnt = MaxRefs
  /\ heap.state = "allocated" /\ heap.frees = 0 /\ released = 0

\* C14: the end of the sequence is not an error.  When iterate has drained an
\* iterator and no error was raised, it returns the list as success and the
\* current-error slot is empty: the StopIteration of the end is not pending.
C14_EndIsNotAnError ==
  (op.fn = "iterate" /\ pc = "idle" /\ NoFailure /\ ~crashed)
    => (ret.kind = "list" /\ err = NoError /\ ends > 0)

C14_Witness ==
  /\ op.fn = "iterate" /\ pc = "idle" /\ NoFailure /\ ~crashed
  /\ iterArgs.step = 2 /\ ret.kind = "list" /\ Len(ret.items) = 2
  /\ err = NoError

\* C15: add_numbers(a, b) returns the mathematical sum a + b for every pair
\* of arguments accepted as C ints, also when the sum lies outside the range
\* of int.
C15_AddNumbersIsSum ==
  (op.fn = "add_numbers" /\ {args.a, args.b} \subseteq CInt /\ NoFailure)
    => (~crashed /\ ret = IntObj(args.a + args.b) /\ err = NoError)

\* C16: divmod(a, b) fails with ZeroDivisionError and no value when b = 0;
\* for every other pair of longs it returns (q, r) with a = q * b + r and
\* |r| < |b|, q and r in the range of long, a = LONG_MIN, b = -1 included.
C16_DivmodIdentity ==
  (op.fn = "divmod" /\ {args.a, args.b} \subseteq Long /\ NoFailure)
    => IF args.b = 0
       THEN ret = NULL /\ err = "ZeroDivisionError" /\ ~crashed
       ELSE /\ ~crashed /\ err = NoError
            /\ ret.kind = "tuple"
            /\ {ret.items[1], ret.items[2]} \subseteq Long
            /\ args.a = ret.items[1] * args.b + ret.items[2]
            /\ Abs(ret.items[2]) < Abs(args.b)

\* C17: after check_and_clear, check_exception_type or get_exception_info
\* has returned, the current-error slot is empty whether the callable raised
\* or not; and check_and_clear returns "Exception was caught and cleared"
\* exactly when the callable failed with an error set and "No exception
\* occurred" otherwise.
C17_SlotEmptyAfterReturn ==
  /\ (/\ op.fn \in {"check_and_clear", "check_exception_type",
                     "get_exception_info"}
      /\ NoFailure /\ ~crashed)
       => (err = NoError /\ ret # NULL)
  /\ (op.fn = "check_and_clear" /\ NoFailure)
       => /\ ~crashed
          /\ ret = IF args.callee.raises # "none"
                   THEN StrObj("Exception was caught and cleared")
                   ELSE StrObj("No exception occurred")

C17_Witness ==
  /\ op.fn = "check_and_clear" /\ NoFailure
  /\ args.callee.raises = "KeyError"
  /\ ret = StrObj("Exception was caught and cleared") /\ err = NoError

\* C18: check_exception_type answers with exactly one of four strings:
\* "ValueError caught" when the pending error is a ValueError, "TypeError
\* caught" when it is a TypeError, "Other exception caught" for any other
\* error, and "No exception" exactly when the callable returned a value.
C18_Classification ==
  (op.fn = "check_exception_type" /\ NoFailure)
    => /\ ~crashed /\ ret.kind = "str"
       /\ ret.s \in {"ValueError caught", "TypeError caught",
                     "Other exception caught", "No exception"}
       /\ ret.s = "ValueError caught"
            <=> args.callee.raises \in {"ValueError", "UnicodeError"}
       /\ ret.s = "TypeError caught" <=> args.callee.raises = "TypeError"
       /\ ret.s = "No exception" <=> args.callee.raises = "none"
       /\ ret.s = "Other exception caught"
            <=> args.callee.raises \in {"KeyError", "RuntimeError"}

C18_Witness ==
  /\ op.fn = "check_exception_type" /\ NoFailure
  /\ args.callee.raises = "UnicodeError"
  /\ ret = StrObj("ValueError caught")

\* C19: nested_call_demo always returns failure with the ZeroDivisionError
\* of safe_divide pending, set_and_check always returns failure with
\* RuntimeError pending, and neither ever returns a value.
C19_AlwaysFails ==
  /\ (op.fn = "nested_call_demo" /\ NoFailure)
       => (~crashed /\ ret = NULL /\ err = "ZeroDivisionError")
  /\ (op.fn = "set_and_check" /\ NoFailure)
       => (~crashed /\ ret = NULL /\ err = "RuntimeError")
  /\ op.fn \in {"nested_call_demo", "set_and_check"} => ret = NULL

C19_Witness ==
  /\ op.fn = "nested_call_demo" /\ NoFailure /\ ~crashed
  /\ ret = NULL /\ err = "ZeroDivisionError"

\* C20: incref_demo(obj) returns (before, after) with after = before + 1,
\* before being obj's reference count as the call finds it, and leaves the
\* count of obj, and of every other object, as it was before the call.
C20_IncrefDemoRestores ==
  [][op'.fn = "incref_demo"
       => /\ objs' = objs
          /\ NoFailure'
               => /\ ret'.kind = "tuple"
                  /\ ret'.items[1] = objs[args'.obj] + 1
                  /\ ret'.items[2] = ret'.items[1] + 1]_vars

C20_Witness ==
  /\ op.fn = "incref_demo" /\ NoFailure
  /\ objs[args.obj] = 2 /\ ret = TupleObj(<<3, 4>>)

\* An object the call created is released: it was never created, or its
\* count is 0, no less.
Released(o) == o = NULL \/ o.refcnt = 0

\* C21: exception_safe returns the list of the ten squares 0, 1, 4, ..., 81
\* when no step fails; when list creation, integer creation or an append
\* fails at any iteration it returns failure, and the list and the current
\* item have been released, none of them twice.
C21_ExceptionSafe ==
  op.fn = "exception_safe"
    => IF args.fail.at = "none"
       THEN /\ ~crashed /\ err = NoError
            /\ ret = ListObj(<<0, 1, 4, 9, 16, 25, 36, 49, 64, 81>>)
       ELSE /\ ~crashed
            /\ ret = NULL /\ err # NoError
            /\ Released(made.list) /\ Released(made.item)

\* C22: a pull on an iterator that is not exhausted (current < stop) returns
\* the value current had before the call and sets current to that value plus
\* step, the sum taken in long arithmetic; no pull changes stop or step; and
\* a pull that returns End leaves current, stop and step unchanged.  Pulls
\* are the direct ones and those of iterate's loop; a pull killed by a trap
\* returns nothing.
C22_PullFrame ==
  [][(iter # NULL /\ ~crashed')
       => /\ iter'.stop = iter.stop /\ iter'.step = iter.step
          /\ (op'.fn = "next" /\ iter.current >= iter.stop)
               => (iter' = iter /\ ret' = NULL /\ err' = "StopIteration")
          /\ (op'.fn = "next" /\ iter.current < iter.stop)
               => /\ iter'.current = WrapLong(iter.current + iter.step)
                  /\ ret' # NULL => ret' = IntObj(iter.current)
          /\ (pc = "loop" /\ iter.current >= iter.stop)
               => (iter' = iter /\ pc' = "idle")
          /\ (pc = "loop" /\ iter.current < iter.stop)
               => /\ iter'.current = WrapLong(iter.current + iter.step)
                  /\ (result # NULL /\ result' # NULL /\ result' # result)
                       => result'.items = Append(result.items, iter.current)]_vars

C22_Witness ==
  /\ op.fn = "next" /\ ret.kind = "int" /\ ~crashed
  /\ iter.step = 2 /\ iter.current = ret.v + 2 /\ iter.current >= iter.stop
  /\ ends = 0

\* C23: a range iterator is not rewindable.  Once exhausted (current >= stop)
\* it stays exhausted; asking it for an iterator gives the same object at the
\* same position; so an iterate call that begins on an exhausted iterator,
\* as a second drain does, returns the empty list.
C23_NotRewindable ==
  [][(iter # NULL)
       => /\ iter.current >= iter.stop => iter' = iter
          /\ (pc = "idle" /\ pc' = "loop") => iter' = iter
          /\ (/\ pc = "loop" /\ count = 0 /\ result # NULL
              /\ iter.current >= iter.stop /\ ~crashed')
               => (pc' = "idle" /\ ret' = ListObj(<<>>) /\ err' = NoError)]_vars

\* C23 witness: an iterator over a range that is not empty, drained before,
\* has been drained again and the empty list came back.
C23_Witness ==
  /\ op.fn = "iterate" /\ pc = "idle" /\ use = "used" /\ ends >= 2
  /\ iterArgs.start < iterArgs.stop /\ iterArgs.step = 1
  /\ ret = ListObj(<<>>) /\ err = NoError

\* C24: in every reachable state the payload of a Point handle is allocated
\* while a reference to the handle exists and freed once the last is dropped:
\* never freed under a referenced handle, never left allocated without one.
C24_PayloadLivesWithHandle ==
  /\ capsule.kind = "capsule"
       => (capsule.refcnt >= 1 /\ heap.state = "allocated" /\ heap.frees = 0)
  /\ capsule.kind = "freed"
       => (capsule.refcnt = 0 /\ heap.state = "freed" /\ heap.frees = 1)
  /\ capsule = NULL => heap.state # "allocated"

\* C24 witness: one of two references was dropped and the payload is still
\* allocated under the remaining one.
C24_Witness ==
  /\ op = Op("decref", "handle")
  /\ capsule.kind = "capsule" /\ capsule.refcnt = 1
  /\ heap.state = "allocated"

\* C26: when the payload was allocated and the creation of the capsule object
\* fails, create_point frees the payload before it returns failure: no
\* payload is left allocated without a handle that owns it.
C26_CapsuleFailureFreesPayload ==
  (cargs.called /\ cargs.allocMem /\ ~cargs.allocCap)
    => /\ capsule = NULL
       /\ heap.state = "freed" /\ heap.frees = 1
       /\ released = 0
       /\ op.fn = "create_point" => (ret = NULL /\ err = "MemoryError")

C26_Witness ==
  /\ op.fn = "create_point" /\ Accepted(cargs)
  /\ cargs.allocMem /\ ~cargs.allocCap
  /\ ret = NULL /\ heap.state = "freed"

\* C27: with current + step wrapping in the width of long, for every step > 0
\* the values successive pulls return are strictly increasing and each is
\* below stop, also when stop is within step of the largest long.
C27_IncreasingBelowStop ==
  (iter # NULL /\ iter.step > 0)
    => \A i \in 1..Len(got) :
         /\ got[i].v < iter.stop
         /\ i > 1 => got[i - 1].v < got[i].v

\* The k-th element of the iterator's sequence: start, and then the element
\* before plus step, the sum taken in long arithmetic.
RECURSIVE Elem(_)
Elem(k) ==
  IF k = 1 THEN iterArgs.start ELSE WrapLong(Elem(k - 1) + iter.step)

\* C28: two callers pull from the same iterator, whole pulls in any order.
\* The k-th pull that returns a value returns the k-th element of the
\* sequence, to the caller that made it and to no other, and the iterator
\* then stands at the element after it: none is returned twice or skipped.
\* While step is positive and no sum has wrapped, the values returned are
\* pairwise different.  Once a pull has returned End, every pull by either
\* caller returns End.
C28_WholePullsInterleave ==
  (iter # NULL /\ NoFailure)
    => /\ \A i \in 1..Len(got) :
            got[i].v = Elem(i) /\ got[i].who \in {"A", "B"}
       /\ (Len(got) < MaxGot /\ ~crashed) => iter.current = Elem(Len(got) + 1)
       /\ (/\ iter.step > 0
           /\ \A i \in 1..Len(got) : got[i].v + iter.step \in Long)
            => \A i, j \in 1..Len(got) : i # j => got[i].v # got[j].v
       /\ (op.fn = "next" /\ ends > 0 /\ ~crashed)
            => (ret = NULL /\ err = "StopIteration")

\* C28 witness: A, B and A again got the three values of a range, and B has
\* pulled End after A had.
C28_Witness ==
  /\ NoFailure /\ Len(got) = 3
  /\ got[1].who = "A" /\ got[2].who = "B" /\ got[3].who = "A"
  /\ got[1].v # got[2].v /\ got[2].v # got[3].v
  /\ ends >= 2 /\ op = Op("next", "B") /\ err = "StopIteration"

\* C25: borrowed_ref_demo and owned_ref_demo leak nothing.  Once the call
\* has returned and the caller has released the dict it returned, the dict,
\* the new integer and the integer holding the reference count have
\* reference count zero, and the reference counts of the objects the caller
\* passed, the list's first item among them, are what they were before the
\* call.
C25_NothingLeaked ==
  (op.fn = "release_result" /\ NoFailure)
    => /\ Released(made.dict) /\ made.dict # NULL
       /\ Released(made.new_int)
       /\ Released(made.count) /\ made.count # NULL
       /\ objs = args.before

====
